---- MODULE Spec2Model ----
(***************************************************************************)
(* Model of the FSRS scheduler in src/src/suca/utils/fsrs.py: the Card     *)
(* object a caller holds, FSRS.repeat (which mutates that object and       *)
(* returns one (next_card, review_log) pair per rating) and the helper     *)
(* functions _next_card, _calculate_stability and _next_interval.          *)
(*                                                                         *)
(* Numbers.  Python floats are modelled as fixed-point integers:           *)
(* stability is held in units of 1/Scale day, retrievability in units of   *)
(* 1/RScale, and every product is truncated toward zero to that            *)
(* resolution.  difficulty only ever takes whole values here (it starts    *)
(* whole and changes by +1/-1), so it is an integer.  Datetimes are ticks, *)
(* DayTicks ticks to a day, so that timedelta.days (a floor) is modelled   *)
(* by what it does.  TLC integers are 32 bit: a call whose intermediate    *)
(* values would leave MaxMag is not explored (InRange).                    *)
(***************************************************************************)
EXTENDS Integers, Sequences, FiniteSets, TLC

VARIABLES
    card,         \* the caller's Card object (FSRS.repeat mutates it)
    enable_fuzz,  \* FSRS.enable_fuzz, fixed at construction
    wGrowth,      \* FSRS.w[4..7] in hundredths, fixed at construction
    pc,           \* "idle" | "returned" | "raised": outcome of the last repeat call
    now,          \* the `now` argument of the last repeat call
    before,       \* the fields of `card` just before the last repeat call
    result,       \* the dict returned by the last repeat call
    hasPreview,   \* an earlier repeat call on this same Card object returned
    preview,      \* ... and this is what it returned
    previewNow,   \* ... for this `now`
    twinDone,     \* a second call with inputs equal to the last call's was made
    twin,         \* ... and this is what it returned
    calls,        \* number of repeat calls made so far
    budget,       \* number of repeat calls this run explores
    againNonNew,  \* number of Again ratings committed on a non-New card
    backward,     \* some repeat call was given a `now` earlier than last_review
    row,          \* the FSRS columns of the stored Flashcard row
    rowChanged,   \* the last review request changed `row`
    status,       \* HTTP status of the last review request (0: none yet)
    lastRating,   \* the rating in the body of the last review request
    committed,    \* the last review request committed a reviewed card
    apiReviews,   \* number of review requests that committed
    conv,         \* a card taken through card_to_dict and dict_to_card
    reqPc,        \* position of each concurrent review request
    reqSnap,      \* the row each concurrent request read
    stale         \* some request committed a review of a row that had changed

engineVars == <<card, enable_fuzz, wGrowth, pc, now, before, result, hasPreview,
                preview, previewNow, twinDone, twin, calls, budget, againNonNew,
                backward>>

apiVars == <<row, rowChanged, status, lastRating, committed, apiReviews>>

codecVars == <<conv>>

concVars == <<reqPc, reqSnap, stale>>

storeVars == <<apiVars, codecVars, concVars>>

vars == <<engineVars, storeVars>>

----------------------------------------------------------------------------
(* Bounds of the exploration *)

MaxTime == 9            \* review times are the ticks 0..MaxTime
MaxCalls == 2           \* repeat calls explored from a New card
MaxStab == 300000       \* |stability| (in 1/Scale day) a call is explored for
MaxMag == 1000000000    \* magnitude the fixed-point arithmetic stays within
MaxFuzz == 2            \* |random.randint(...)| values enumerated
MaxApiReviews == 2      \* review requests that commit, per run

(* Resolution of the fixed-point model *)

Scale == 100            \* stability units per day
RScale == 100           \* retrievability units per 1.0
DayTicks == 2           \* ticks per day

None == -1              \* last_review is None

----------------------------------------------------------------------------
(* Arithmetic helpers *)

Abs(x) == IF x < 0 THEN -x ELSE x

Min(a, b) == IF a <= b THEN a ELSE b

Max(a, b) == IF a >= b THEN a ELSE b

\* int(a / b) and float division rounded toward zero, b # 0
Trunc(a, b) ==
    LET q == Abs(a) \div Abs(b)
    IN  IF (a < 0) = (b < 0) THEN q ELSE -q

----------------------------------------------------------------------------
(* Rating, configuration *)

AGAIN == 1
HARD == 2
GOOD == 3
EASY == 4

Rating == {AGAIN, HARD, GOOD, EASY}

\* mutant: w[0] = 0.0
InitialStability_Zero(rating) ==
    CASE rating = AGAIN -> 0
      [] rating = HARD  -> (6 * Scale) \div 10
      [] rating = GOOD  -> (24 * Scale) \div 10
      [] rating = EASY  -> (58 * Scale) \div 10

\* w[0..3] = 0.4, 0.6, 2.4, 5.8 in 1/Scale day
InitialStability(rating) ==
    CASE rating = AGAIN -> (4 * Scale) \div 10
      [] rating = HARD  -> (6 * Scale) \div 10
      [] rating = GOOD  -> (24 * Scale) \div 10
      [] rating = EASY  -> (58 * Scale) \div 10

\* the default w[4..7] = 4.93, 0.94, 0.86, 0.01 in hundredths
DefaultGrowth == <<493, 94, 86, 1>>

\* w[3 + rating] of this FSRS instance, in hundredths
StabilityFactor(rating) == wGrowth[rating]

maximum_interval == 36500

NewCard ==
    [due |-> 0, stability |-> 0, difficulty |-> 0, elapsed_days |-> 0,
     scheduled_days |-> 0, reps |-> 0, lapses |-> 0, state |-> 0,
     last_review |-> None]

----------------------------------------------------------------------------
(* FSRS._calculate_stability *)

\* the divisor 9 * stability + elapsed_days of the retrievability, in 1/Scale
RetrDivisor(c) == 9 * c.stability + c.elapsed_days * Scale

\* pow(1 + elapsed_days / (9 * stability), -1), in 1/RScale
Retrievability(c) == Trunc(9 * c.stability * RScale, RetrDivisor(c))

\* stability * w[3 + rating] * (11 - difficulty), in 1/Scale
GrowthTerm(c, rating) ==
    Trunc(c.stability * StabilityFactor(rating) * (11 - c.difficulty), 100)

\* the call raises ZeroDivisionError
Raises(c) == c.state # 0 /\ (c.stability = 0 \/ RetrDivisor(c) = 0)

\* the arithmetic of the call stays within MaxMag
InRange(c) ==
    /\ Abs(c.stability) <= MaxStab
    /\ c.difficulty \in 0..10
    /\ Abs(c.elapsed_days) <= MaxTime
    /\ (c.state # 0 /\ ~Raises(c)) =>
          \A r \in Rating :
             IF GrowthTerm(c, r) = 0
             THEN TRUE
             ELSE Abs(Retrievability(c)) <= MaxMag \div Abs(GrowthTerm(c, r))

CalculateStability(c, rating) ==
    IF c.state = 0
    THEN InitialStability(rating)
    ELSE c.stability + Trunc(GrowthTerm(c, rating) * Retrievability(c), RScale)

----------------------------------------------------------------------------
(* FSRS._next_interval *)

\* max(1, int(min(stability * (0.9^(1/9) - 1), maximum_interval)));
\* 0.9^(1/9) - 1 = -0.01164 to five places
BaseInterval(c) ==
    Max(1, Min(Trunc(c.stability * (-1164), Scale * 100000), maximum_interval))

\* max(1, int(interval * 0.05))
FuzzRange(interval) == Max(1, Trunc(interval * 5, 100))

\* mutant: enable_fuzz ignored
FuzzChoices_Always(c) ==
    IF BaseInterval(c) > 2
    THEN (-FuzzRange(BaseInterval(c))) .. FuzzRange(BaseInterval(c))
    ELSE {0}

\* the values random.randint can return in this call (0 when it is not called)
FuzzChoices(c) ==
    IF enable_fuzz /\ BaseInterval(c) > 2
    THEN (-FuzzRange(BaseInterval(c))) .. FuzzRange(BaseInterval(c))
    ELSE {0}

\* fz is the value random.randint returned
NextInterval(c, fz) == Max(1, BaseInterval(c) + fz)

----------------------------------------------------------------------------
(* FSRS._next_card *)

\* mutant: the max(1, ...) of line 133 left out
HardDays_NoClamp(c) == Trunc(c.scheduled_days * 12, 10)

HardDays(c) == Max(1, Trunc(c.scheduled_days * 12, 10))

\* mutant: the interval divided by 1.3 instead of multiplied
EasyDays_Divided(c, fz) == Trunc(NextInterval(c, fz) * 10, 13)

EasyDays(c, fz) == Trunc(NextInterval(c, fz) * 13, 10)

\* mutant: Hard adds its multiple to the previous interval
ScheduledDays_HardAdds(c, rating, fzGood, fzEasy) ==
    CASE rating = AGAIN -> 1
      [] rating = HARD  -> c.scheduled_days + HardDays(c)
      [] rating = GOOD  -> NextInterval(c, fzGood)
      [] rating = EASY  -> EasyDays(c, fzEasy)

ScheduledDays(c, rating, fzGood, fzEasy) ==
    CASE rating = AGAIN -> 1
      [] rating = HARD  -> HardDays(c)
      [] rating = GOOD  -> NextInterval(c, fzGood)
      [] rating = EASY  -> EasyDays(c, fzEasy)

NextLapses(c, rating) == IF rating = AGAIN THEN c.lapses + 1 ELSE c.lapses

\* mutant: the clamps min(10, .) and max(1, .) left out
NextDifficulty_NoClamp(c, rating) ==
    CASE rating = AGAIN -> c.difficulty + 1
      [] rating = EASY  -> c.difficulty - 1
      [] OTHER          -> c.difficulty

NextDifficulty(c, rating) ==
    CASE rating = AGAIN -> Min(10, c.difficulty + 1)
      [] rating = EASY  -> Max(1, c.difficulty - 1)
      [] OTHER          -> c.difficulty

\* mutant: the interval added in ticks, not in days
DueAfter_Ticks(t, days) == t + days

DueAfter(t, days) == t + days * DayTicks

\* mutant: next_card.state = 2 left out
NextState_Keep(c) == c.state

\* line 146: every rated card goes to the Review state
NextState(c) == 2

NextCard(c, rating, t, fzGood, fzEasy) ==
    LET days == ScheduledDays(c, rating, fzGood, fzEasy)
    IN  [c EXCEPT !.lapses = NextLapses(c, rating),
                  !.scheduled_days = days,
                  !.stability = CalculateStability(c, rating),
                  !.difficulty = NextDifficulty(c, rating),
                  !.due = DueAfter(t, days),
                  !.state = NextState(c)]

----------------------------------------------------------------------------
(* FSRS.repeat *)

ElapsedDays(c, t) ==
    IF c.state = 0
    THEN 0
    ELSE IF c.last_review # None
         THEN (t - c.last_review) \div DayTicks
         ELSE 0

\* mutant: card.reps += 1 left out
NextReps_Same(c) == c.reps

NextReps(c) == c.reps + 1

\* the input Card object after lines 98-104
Touched(c, t) ==
    [c EXCEPT !.elapsed_days = ElapsedDays(c, t),
              !.last_review = t,
              !.reps = NextReps(c)]

MakeLog(c, next, rating, t) ==
    [rating |-> rating, scheduled_days |-> next.scheduled_days,
     elapsed_days |-> c.elapsed_days, review_time |-> t, state |-> next.state]

\* the returned dict, for the mutated input object c
RepeatResult(c, t, fzGood, fzEasy) ==
    [r \in Rating |->
        LET next == NextCard(c, r, t, fzGood, fzEasy)
        IN  [card |-> next, log |-> MakeLog(c, next, r, t)]]

NoResult == << >>

----------------------------------------------------------------------------
(* Actions *)

\* FSRS.repeat(card, t) on the caller's Card object
Repeat(t, fzGood, fzEasy) ==
    /\ calls < budget
    /\ InRange(Touched(card, t))
    /\ fzGood \in FuzzChoices(Touched(card, t))
    /\ fzEasy \in FuzzChoices(Touched(card, t))
    /\ before' = card
    /\ card' = Touched(card, t)
    /\ now' = t
    /\ calls' = calls + 1
    /\ hasPreview' = (pc = "returned")
    /\ preview' = IF pc = "returned" THEN result ELSE NoResult
    /\ previewNow' = IF pc = "returned" THEN now ELSE 0
    /\ twinDone' = FALSE
    /\ twin' = NoResult
    /\ IF Raises(Touched(card, t))
       THEN /\ fzGood = 0 /\ fzEasy = 0
            /\ pc' = "raised"
            /\ result' = NoResult
       ELSE /\ pc' = "returned"
            /\ result' = RepeatResult(Touched(card, t), t, fzGood, fzEasy)
    /\ backward' = (backward \/ (card.last_review # None /\ t < card.last_review))
    /\ UNCHANGED <<enable_fuzz, wGrowth, budget, againNonNew>>
    /\ UNCHANGED storeVars

\* FSRS.repeat on a second Card object whose fields equal those the first
\* call was given, with the same `now` and the same FSRS instance
RepeatTwin(fzGood, fzEasy) ==
    /\ pc = "returned"
    /\ ~twinDone
    /\ fzGood \in FuzzChoices(Touched(before, now))
    /\ fzEasy \in FuzzChoices(Touched(before, now))
    /\ twinDone' = TRUE
    /\ twin' = RepeatResult(Touched(before, now), now, fzGood, fzEasy)
    /\ UNCHANGED <<card, enable_fuzz, wGrowth, pc, now, before, result,
                   hasPreview, preview, previewNow, calls, budget, againNonNew,
                   backward>>
    /\ UNCHANGED storeVars

\* the caller keeps the card returned for `rating` as its card
Choose(rating) ==
    /\ pc = "returned"
    /\ card' = result[rating].card
    /\ pc' = "idle"
    /\ againNonNew' = IF rating = AGAIN /\ before.state # 0
                      THEN againNonNew + 1 ELSE againNonNew
    /\ hasPreview' = FALSE
    /\ preview' = NoResult
    /\ previewNow' = 0
    /\ twinDone' = FALSE
    /\ twin' = NoResult
    /\ UNCHANGED <<enable_fuzz, wGrowth, now, before, result, calls, budget,
                   backward>>
    /\ UNCHANGED storeVars

----------------------------------------------------------------------------
(* The review endpoint: POST /decks/{deck_id}/cards/{card_id}/review, over  *)
(* FlashcardService.review_flashcard and FSRSService.  The scheduler behind *)
(* FSRSService is the external fsrs package: what it returns is a choice    *)
(* among the cards it can return.                                           *)

\* the FSRS columns of a newly created Flashcard
NewRow ==
    [difficulty |-> 0, stability |-> 0, reps |-> 0, state |-> 0,
     last_review |-> None, due |-> 0]

\* mutant: the le=4 bound of the rating field left out
ValidRating_NoUpper(r) == r >= 1

\* FlashcardReviewRequest.rating: Field(..., ge=1, le=4)
ValidRating(r) == r >= 1 /\ r <= 4

\* Rating(review.rating) raises ValueError
RatingRaises(r) == r \notin Rating

\* mutant: a stored 0.0 kept as 0.0, not turned into None
dict_to_card_KeepZero(data) ==
    [difficulty |-> data.difficulty,
     stability |-> data.stability,
     step |-> data.reps,
     state |-> IF data.state = 0 THEN 1 ELSE data.state,
     last_review |-> data.last_review,
     due |-> data.due]

\* FSRSService.dict_to_card; the stored datetimes are timezone-aware, which
\* lines 118-129 leave as they are
dict_to_card(data) ==
    [difficulty |-> IF data.difficulty # 0 THEN data.difficulty ELSE None,
     stability |-> IF data.stability # 0 THEN data.stability ELSE None,
     step |-> data.reps,
     state |-> IF data.state = 0 THEN 1 ELSE data.state,
     last_review |-> data.last_review,
     due |-> data.due]

\* FSRSService.card_to_dict
card_to_dict(c) ==
    [difficulty |-> IF c.difficulty # None THEN c.difficulty ELSE 0,
     stability |-> IF c.stability # None THEN c.stability ELSE 0,
     reps |-> IF c.step # None THEN c.step ELSE 0,
     state |-> c.state,
     last_review |-> c.last_review,
     due |-> c.due]

\* FSRSService.review_card: the cards scheduler.review_card(card, rating, now)
\* can return at time t: a learning step or None, a positive stability, a
\* difficulty in [1, 10], last_review = now and a due date after now
ReviewedCards(c, rating, t) ==
    { [difficulty |-> 5, stability |-> st, step |-> ss[2], state |-> ss[1],
       last_review |-> t, due |-> t + d] :
        st \in {40, 240},
        ss \in {<<1, 0>>, <<1, 1>>, <<2, None>>, <<3, 0>>},
        d \in {1, DayTicks} }

\* the request reaches the scheduler: a valid body, the caller's own card,
\* addressed through its own deck
ReachesScheduler(r, lookup) ==
    ValidRating(r) /\ lookup = "ok" /\ ~RatingRaises(r)

\* one review request: body validation, the endpoint, review_flashcard
ApiReview(r, lookup, t, updated) ==
    /\ lastRating' = r
    /\ IF ~ValidRating(r)
       THEN \* the body is rejected before the endpoint runs
            /\ status' = 422
            /\ UNCHANGED <<row, apiReviews>>
            /\ committed' = FALSE
       ELSE IF lookup # "ok"
       THEN \* ValidationException of get_flashcard, or the deck_id test
            /\ status' = 404
            /\ UNCHANGED <<row, apiReviews>>
            /\ committed' = FALSE
       ELSE IF RatingRaises(r)
       THEN \* caught at line 319: rollback, DatabaseException
            /\ status' = 500
            /\ UNCHANGED <<row, apiReviews>>
            /\ committed' = FALSE
       ELSE \* lines 292-306 commit the reviewed card; model_validate at
            \* line 315 then lacks the required fields of
            \* FlashcardReviewResponse and raises: DatabaseException
            /\ apiReviews < MaxApiReviews
            /\ updated \in ReviewedCards(dict_to_card(row), r, t)
            /\ row' = card_to_dict(updated)
            /\ apiReviews' = apiReviews + 1
            /\ committed' = TRUE
            /\ status' = 500
    /\ rowChanged' = (row' # row)
    /\ UNCHANGED <<engineVars, codecVars, concVars>>

RawRatings == 0 .. 5

\* datetime.now(UTC) of a review request
ReviewTimes == {0, 1, MaxTime}

Lookups == {"ok", "no_card", "other_deck"}

\* the scheduler's answer is drawn only when the request reaches it
DoApiReview ==
    \E r \in RawRatings, lookup \in Lookups :
       IF ReachesScheduler(r, lookup)
       THEN \E t \in ReviewTimes :
               \E updated \in ReviewedCards(dict_to_card(row), r, t) :
                  ApiReview(r, lookup, t, updated)
       ELSE ApiReview(r, lookup, 0, dict_to_card(row))

NextApi == DoApiReview

\* mutant: the last_review and stability tests left out
is_card_new_StepOnly(c) == c.state = 1 /\ c.step = 0

\* FSRSService.is_card_new
is_card_new(c) ==
    c.state = 1 /\ c.step = 0 /\ c.last_review = None /\ c.stability = None

\* mutant: due < now
IsDue_Strict(r, t) == r.due < t

\* FSRSService.is_card_due and the due_cards count of get_due_cards:
\* the card is counted at time t
IsDue(r, t) == r.due <= t

\* due_cards of a deck that holds the one card r
due_cards(r, t) == IF IsDue(r, t) THEN 1 ELSE 0

----------------------------------------------------------------------------
(* FSRSService.card_to_dict and dict_to_card as a codec: a card of the fsrs *)
(* package is stored, loaded and stored again.                              *)

\* Card() of the fsrs package: Learning, step 0, nothing else set
LibNewCard ==
    [difficulty |-> None, stability |-> None, step |-> 0, state |-> 1,
     last_review |-> None, due |-> 0]

\* cards of the fsrs package: stability and difficulty unset or positive,
\* a state of its State enum, a step or None
LibCards ==
    { [difficulty |-> sd[2], stability |-> sd[1], step |-> ss[2],
       state |-> ss[1], last_review |-> lr, due |-> du] :
        sd \in {<<None, None>>, <<40, 1>>, <<40, 10>>, <<240, 5>>},
        ss \in {<<1, 0>>, <<1, 1>>, <<2, None>>, <<3, 0>>},
        lr \in {None, 0, 3},
        du \in {0, 4} }

NoConv ==
    [stage |-> "none", card |-> LibNewCard, dict |-> NewRow,
     back |-> LibNewCard, again |-> NewRow]

\* card_to_dict(card)
ToDict ==
    /\ conv.stage = "card"
    /\ conv' = [conv EXCEPT !.stage = "dict", !.dict = card_to_dict(conv.card)]
    /\ UNCHANGED <<engineVars, apiVars, concVars>>

\* dict_to_card of that dict
ToCard ==
    /\ conv.stage = "dict"
    /\ conv' = [conv EXCEPT !.stage = "back", !.back = dict_to_card(conv.dict)]
    /\ UNCHANGED <<engineVars, apiVars, concVars>>

\* card_to_dict of the card read back
ToDictAgain ==
    /\ conv.stage = "back"
    /\ conv' = [conv EXCEPT !.stage = "again", !.again = card_to_dict(conv.back)]
    /\ UNCHANGED <<engineVars, apiVars, concVars>>

NextCodec == ToDict \/ ToCard \/ ToDictAgain

----------------------------------------------------------------------------
(* Two review requests for the same flashcard, each in its own session:     *)
(* review_flashcard reads the row (line 276, a plain SELECT), computes the  *)
(* review from what it read and commits an UPDATE of the FSRS columns.      *)
(* Nothing in it locks the row or compares a version.                       *)

Requests == {1, 2}

\* _get_flashcard_by_id: the request reads the row
ReqRead(q) ==
    /\ reqPc[q] = "idle"
    /\ reqPc' = [reqPc EXCEPT ![q] = "read"]
    /\ reqSnap' = [reqSnap EXCEPT ![q] = row]
    /\ UNCHANGED <<row, rowChanged, status, lastRating, committed, apiReviews,
                   stale>>
    /\ UNCHANGED <<engineVars, codecVars>>

\* lines 280-305: the review is computed from the row that was read, and the
\* commit writes its columns over the stored ones
ReqCommit(q, r, t, updated) ==
    /\ reqPc[q] = "read"
    /\ updated \in ReviewedCards(dict_to_card(reqSnap[q]), r, t)
    /\ reqPc' = [reqPc EXCEPT ![q] = "done"]
    /\ row' = card_to_dict(updated)
    /\ rowChanged' = (row' # row)
    /\ status' = 500
    /\ lastRating' = r
    /\ committed' = TRUE
    /\ apiReviews' = apiReviews + 1
    /\ stale' = (stale \/ reqSnap[q] # row)
    /\ UNCHANGED reqSnap
    /\ UNCHANGED <<engineVars, codecVars>>

DoReqRead == \E q \in Requests : ReqRead(q)

DoReqCommit ==
    \E q \in Requests, r \in Rating, t \in ReviewTimes :
       \E updated \in ReviewedCards(dict_to_card(reqSnap[q]), r, t) :
          ReqCommit(q, r, t, updated)

NextConc == DoReqRead \/ DoReqCommit

----------------------------------------------------------------------------

Fuzzes == (-MaxFuzz) .. MaxFuzz

DoRepeat == \E t \in 0..MaxTime, fg \in Fuzzes, fe \in Fuzzes : Repeat(t, fg, fe)

DoRepeatTwin == \E fg \in Fuzzes, fe \in Fuzzes : RepeatTwin(fg, fe)

DoChoose == \E r \in Rating : Choose(r)

Next == DoRepeat \/ DoRepeatTwin \/ DoChoose

InitCommon ==
    /\ enable_fuzz \in BOOLEAN
    /\ pc = "idle"
    /\ now = 0
    /\ before = card
    /\ result = NoResult
    /\ hasPreview = FALSE
    /\ preview = NoResult
    /\ previewNow = 0
    /\ twinDone = FALSE
    /\ twin = NoResult
    /\ calls = 0
    /\ againNonNew = 0
    /\ backward = FALSE
    /\ row = NewRow
    /\ rowChanged = FALSE
    /\ status = 0
    /\ lastRating = 0
    /\ committed = FALSE
    /\ apiReviews = 0
    /\ reqPc = [q \in Requests |-> "idle"]
    /\ reqSnap = [q \in Requests |-> NewRow]
    /\ stale = FALSE

\* a freshly constructed Card()
Init ==
    /\ card = NewCard
    /\ wGrowth = DefaultGrowth
    /\ budget = MaxCalls
    /\ conv = NoConv
    /\ InitCommon

Spec == Init /\ [][Next]_vars

\* review requests against one stored, newly created flashcard
SpecApi == Init /\ [][NextApi]_vars

\* two concurrent review requests for one stored, newly created flashcard
SpecConc == Init /\ [][NextConc]_vars

\* any card of the fsrs package, stored, loaded and stored again
InitCodec ==
    /\ card = NewCard
    /\ wGrowth = DefaultGrowth
    /\ budget = MaxCalls
    /\ conv \in { [NoConv EXCEPT !.stage = "card", !.card = c] : c \in LibCards }
    /\ InitCommon

SpecCodec == InitCodec /\ [][NextCodec]_vars

\* any stored card, explored for one scheduling decision: what follows a
\* decision is explored from the New card, under Spec
StabValues == {-40000, -500, 0, 40, 1000}

AnyCards ==
    { [NewCard EXCEPT !.stability = s, !.difficulty = d, !.scheduled_days = sd,
                      !.state = st[1], !.last_review = st[2]] :
        s \in StabValues, d \in {0, 5, 10},
        sd \in {-3, 0, 1, 8, maximum_interval},
        st \in {<<0, None>>, <<2, 4>>, <<2, None>>} }

InitAny ==
    /\ card \in AnyCards
    /\ wGrowth = DefaultGrowth
    /\ budget = 1
    /\ conv = NoConv
    /\ InitCommon

SpecAny == InitAny /\ [][Next]_vars

\* a well-formed reviewed card under an FSRS instance constructed with its own
\* weights w, some of them with a negative w[4..7]; one scheduling decision
GrowthConfigs ==
    {DefaultGrowth, <<-50, 94, 86, 1>>, <<493, 94, 86, -20>>, <<-5, -5, -5, -5>>}

CfgCards ==
    { [NewCard EXCEPT !.stability = s, !.difficulty = d, !.scheduled_days = sd,
                      !.state = 2, !.last_review = lr, !.reps = 1] :
        s \in {40, 1000}, d \in {1, 5, 10}, sd \in {1, 8}, lr \in {0, 4} }

InitCfg ==
    /\ card \in CfgCards
    /\ wGrowth \in GrowthConfigs
    /\ budget = 1
    /\ conv = NoConv
    /\ InitCommon

SpecCfg == InitCfg /\ [][Next]_vars

----------------------------------------------------------------------------
(* Properties *)

Returned == pc = "returned"

Days(r) == result[r].card.scheduled_days

\* C1: after every review of a card that started New, the card returned for
\* each rating has 1 <= difficulty <= 10 (also after a first Hard or Good).
C1_DifficultyInRange ==
    Returned => \A r \in Rating : result[r].card.difficulty \in 1..10

\* C2: whatever the ratings and review times (a review time earlier than
\* last_review included), every card whose state is not New has stability > 0.
C2_StabilityPositive ==
    /\ card.state # 0 => card.stability > 0
    /\ Returned =>
          \A r \in Rating :
             result[r].card.state # 0 => result[r].card.stability > 0

\* C3: for every input card, every rating and both fuzz settings, the card
\* returned by a review has scheduled_days >= 1.
C3_ScheduledDaysAtLeastOne ==
    Returned => \A r \in Rating : Days(r) >= 1

\* a fuzzed Good interval below its base, next to a Hard interval at its clamp
C3_Witness ==
    /\ Returned
    /\ enable_fuzz
    /\ before.scheduled_days <= 0
    /\ BaseInterval(card) > 2
    /\ Days(GOOD) < BaseInterval(card)
    /\ Days(HARD) = 1

\* C4: for every review at time now and every rating, the returned card has
\* last_review = now and due = now + scheduled_days days, hence
\* due >= last_review.
C4_DueFromScheduledDays ==
    Returned =>
       \A r \in Rating :
          /\ result[r].card.last_review = now
          /\ result[r].card.due = now + Days(r) * DayTicks
          /\ result[r].card.due >= result[r].card.last_review

\* a review at a later tick that schedules more than one day
C4_Witness ==
    /\ Returned
    /\ now > 0
    /\ Days(HARD) > 1
    /\ result[HARD].card.due = now + Days(HARD) * DayTicks

\* C5: every repeat call returns cards whose reps is the input card's reps
\* before the call plus 1, so a card that started New has reps = the number
\* of calls made on it.
C5_RepsPlusOne ==
    /\ Returned => \A r \in Rating : result[r].card.reps = before.reps + 1
    /\ card.reps = calls

\* two reviews of a New card were made and the second card kept
C5_Witness == pc = "idle" /\ calls = 2 /\ card.reps = 2

\* C6: lapses goes up by exactly 1 when a non-New card is rated Again and is
\* unchanged otherwise (a New card rated Again keeps lapses = 0), so lapses
\* is the number of Again ratings given while the card was not New.
C6_LapsesCountAgainNonNew ==
    /\ Returned =>
          \A r \in Rating :
             result[r].card.lapses =
                before.lapses + (IF r = AGAIN /\ before.state # 0 THEN 1 ELSE 0)
    /\ pc = "idle" => card.lapses = againNonNew

\* C7: a repeat call leaves every field of the Card object it was given as
\* it was before the call.
C7_InputUnchanged == pc \in {"returned", "raised"} => card = before

\* C8: the card a preview shows for a rating equals the card the following
\* repeat call on the same Card object, with the same now, returns for it
\* (the random fuzz aside).
C8_PreviewEqualsReview ==
    (Returned /\ hasPreview /\ previewNow = now /\ ~enable_fuzz) =>
       \A r \in Rating : result[r].card = preview[r].card

\* C9: with fuzz disabled, two repeat calls given equal card fields, the same
\* now and the same configuration return equal cards and equal review logs.
C9_Deterministic == (twinDone /\ ~enable_fuzz) => twin = result

\* both calls were made on a card whose interval is large enough to be fuzzed
C9_Witness ==
    /\ twinDone
    /\ ~enable_fuzz
    /\ BaseInterval(card) > 2
    /\ twin[GOOD].card.scheduled_days = BaseInterval(card)

\* C10, as stated: with fuzz disabled, scheduled_days for Easy >= Good >= Hard
\* and Again gives 1, for any stored stability, difficulty, scheduled_days.
C10_Monotonic ==
    (Returned /\ ~enable_fuzz) =>
       /\ Days(EASY) >= Days(GOOD)
       /\ Days(GOOD) >= Days(HARD)
       /\ Days(AGAIN) = 1

\* C10, amended: with fuzz disabled, scheduled_days for Easy >= Good and Again
\* gives 1; Good >= Hard is only guaranteed when the previous scheduled_days
\* is at most 1.
C10_EasyGoodAgain ==
    (Returned /\ ~enable_fuzz) =>
       /\ Days(EASY) >= Days(GOOD)
       /\ Days(AGAIN) = 1
       /\ before.scheduled_days <= 1 => Days(GOOD) >= Days(HARD)

\* an Easy interval strictly above the Good one, previous scheduled_days 1
C10_Witness ==
    /\ Returned
    /\ ~enable_fuzz
    /\ before.scheduled_days = 1
    /\ Days(EASY) > Days(GOOD)
    /\ Days(GOOD) > Days(HARD)

\* round(a / b) to the nearest whole number, b > 0
RoundDiv(a, b) == (2 * a + b) \div (2 * b)

\* C11, as stated: Hard sets scheduled_days to
\* max(1, round(previous scheduled_days * 1.2)), rounding to nearest (8 gives 10).
C11_HardRounded ==
    Returned => Days(HARD) = Max(1, RoundDiv(before.scheduled_days * 12, 10))

\* C12: a New card rated r gets stability w[r-1] whatever its prior stability;
\* for Good, scheduled_days is max(1, round(w[2] * (0.9^(1/9) - 1))), computed
\* from the updated stability, and due = now + scheduled_days (fuzz aside).
C12_NewCardFromInitialStability ==
    (Returned /\ before.state = 0 /\ ~enable_fuzz) =>
       /\ \A r \in Rating : result[r].card.stability = InitialStability(r)
       /\ Days(GOOD) =
             Max(1, RoundDiv(InitialStability(GOOD) * (-1164), Scale * 100000))
       /\ result[GOOD].card.due = now + Days(GOOD) * DayTicks

\* C13: on a reviewed card Again gives difficulty min(10, difficulty + 1) and
\* scheduled_days 1, Easy gives max(1, difficulty - 1), Hard and Good leave
\* difficulty unchanged.
C13_DifficultyUpdate ==
    (Returned /\ before.state # 0) =>
       /\ result[AGAIN].card.difficulty =
             (IF before.difficulty + 1 > 10 THEN 10 ELSE before.difficulty + 1)
       /\ result[EASY].card.difficulty =
             (IF before.difficulty - 1 < 1 THEN 1 ELSE before.difficulty - 1)
       /\ result[HARD].card.difficulty = before.difficulty
       /\ result[GOOD].card.difficulty = before.difficulty
       /\ Days(AGAIN) = 1

\* a reviewed card at the upper clamp: Again keeps 10, Easy gives 9
C13_Witness ==
    /\ Returned
    /\ before.state # 0
    /\ before.difficulty = 10
    /\ result[AGAIN].card.difficulty = 10
    /\ result[EASY].card.difficulty = 9

\* C14: a New card rated Again at t0 comes back in a Learning-equivalent state
\* (Learning 1 or Relearning 3, not Review 2) with scheduled_days = 1,
\* due = t0 + 1 day and reps = 1.
C14_NewAgainLearning ==
    (Returned /\ before.state = 0 /\ before.reps = 0) =>
       /\ result[AGAIN].card.state \in {1, 3}
       /\ Days(AGAIN) = 1
       /\ result[AGAIN].card.due = now + DayTicks
       /\ result[AGAIN].card.reps = 1

\* C15: once reviewed a card is never New again: every returned card, and the
\* card kept after any non-empty sequence of reviews, is in state 1, 2 or 3.
C15_NeverNewAgain ==
    /\ Returned => \A r \in Rating : result[r].card.state \in {1, 2, 3}
    /\ (pc = "idle" /\ calls > 0) => card.state \in {1, 2, 3}

\* two reviews, the first of them Again on the New card, and the card kept
C15_Witness ==
    /\ pc = "idle"
    /\ calls = 2
    /\ card.lapses >= 1
    /\ card.state = 2

\* C16: elapsed_days computed at review time is never negative (clamped to 0
\* when now is earlier than last_review), on the card and in the review log.
C16_ElapsedNonNegative ==
    Returned =>
       /\ card.elapsed_days >= 0
       /\ \A r \in Rating :
             /\ result[r].card.elapsed_days >= 0
             /\ result[r].log.elapsed_days >= 0

\* 0 < 9 * stability / (9 * stability + elapsed_days) <= 1, compared exactly
RetrInUnit(c) ==
    IF RetrDivisor(c) > 0
    THEN 0 < 9 * c.stability /\ 9 * c.stability <= RetrDivisor(c)
    ELSE RetrDivisor(c) < 0 /\ RetrDivisor(c) <= 9 * c.stability
                            /\ 9 * c.stability < 0

\* C17: the retrievability used in the stability update of every review of a
\* card reachable from a New card lies in (0, 1] (as it does for every
\* stability > 0 and elapsed_days >= 0).
C17_RetrievabilityInUnit ==
    (Returned /\ before.state # 0) => RetrInUnit(card)

\* C18: when a configured growth factor w[4..7] is negative the stability
\* update is clamped to a small positive floor, so the updated stability of a
\* non-New card is never zero or negative.
C18_NegativeGrowthClamped ==
    (/\ Returned
     /\ before.state # 0
     /\ before.stability > 0
     /\ card.elapsed_days >= 0
     /\ \E r \in Rating : wGrowth[r] < 0) =>
       \A r \in Rating : result[r].card.stability > 0

\* C19: a review request whose rating is outside {1,2,3,4} is answered 422,
\* leaves the stored card as it was and commits no review.
C19_InvalidRatingRejected ==
    (status # 0 /\ lastRating \notin {1, 2, 3, 4}) =>
       /\ status = 422
       /\ ~rowChanged
       /\ ~committed

\* rating 5 rejected on a card that an earlier request had reviewed
C19_Witness ==
    /\ status = 422
    /\ lastRating = 5
    /\ apiReviews >= 1
    /\ ~rowChanged
    /\ row # NewRow

\* a card snapshot that violates the card invariants
Malformed(c) ==
    c.state # 0 /\ (\/ c.stability <= 0
                    \/ c.difficulty < 1
                    \/ c.difficulty > 10
                    \/ c.last_review = None)

\* C20: given a card that violates the card invariants the engine refuses to
\* compute: it neither returns updated cards nor raises an exception.
C20_MalformedRefused ==
    Malformed(before) => pc \notin {"returned", "raised"}

\* C21: serialization round trip: for any valid card c,
\* card_to_dict(dict_to_card(card_to_dict(c))) equals card_to_dict(c) field
\* for field, and dict_to_card(card_to_dict(c)) has the difficulty, stability
\* and state of c.
C21_RoundTrip ==
    /\ conv.stage = "again" => conv.again = conv.dict
    /\ conv.stage \in {"back", "again"} =>
          /\ conv.back.difficulty = conv.card.difficulty
          /\ conv.back.stability = conv.card.stability
          /\ conv.back.state = conv.card.state

\* a Review card whose step is None, and a never-reviewed card, taken round
C21_Witness ==
    /\ conv.stage = "again"
    /\ \/ conv.card.step = None /\ conv.card.stability = 240
       \/ conv.card.stability = None /\ conv.card.last_review = None

\* C22: the stored New sentinel (state 0, stability 0.0, difficulty 0.0,
\* reps 0, last_review null) deserializes to a never-reviewed card: state
\* Learning, stability and difficulty None, is_card_new true; is_card_new is
\* false for every card that has been reviewed at least once.
C22_NewSentinel ==
    /\ row = NewRow =>
          /\ dict_to_card(row).state = 1
          /\ dict_to_card(row).stability = None
          /\ dict_to_card(row).difficulty = None
          /\ is_card_new(dict_to_card(row))
    /\ apiReviews >= 1 => ~is_card_new(dict_to_card(row))

\* a reviewed card stored in the Learning state at step 0
C22_Witness ==
    /\ apiReviews >= 1
    /\ row.state = 1
    /\ row.reps = 0
    /\ ~is_card_new(dict_to_card(row))

\* C23: of two concurrent review requests for one flashcard the second is
\* computed from the card state the first persisted: no review is computed
\* from a stale snapshot and no update is lost.
C23_NoStaleReview == ~stale

\* C24: a review request that fails (404 for a missing card or a wrong deck,
\* DatabaseException for an exception in review_flashcard) leaves the
\* persisted flashcard unchanged.
C24_FailedReviewUnchanged ==
    status \in {404, 500} => ~rowChanged

C26_EasyAboveHard ==
    (/\ Returned
     /\ before.state # 0
     /\ before.stability > 0
     /\ before.difficulty \in 1..10
     /\ card.elapsed_days >= 0) =>
       result[EASY].card.stability > result[HARD].card.stability

\* C27: for every input card with scheduled_days <= maximum_interval, every
\* rating and both fuzz settings, the returned scheduled_days is at most
\* maximum_interval.
C27_IntervalCapped ==
    (Returned /\ before.scheduled_days <= 36500) =>
       \A r \in Rating : Days(r) <= 36500

\* C28: with the default configuration and no review time earlier than
\* last_review, every review of a card reachable from a New card returns
\* scheduled_days = 1 and due = now + 1 day for every rating.
C28_AlwaysOneDay ==
    (Returned /\ ~backward) =>
       \A r \in Rating :
          /\ Days(r) = 1
          /\ result[r].card.due = now + DayTicks

\* the second review, with fuzz enabled, of a card kept after Easy
C28_Witness ==
    /\ Returned
    /\ ~backward
    /\ enable_fuzz
    /\ calls = 2
    /\ before.state = 2
    /\ before.scheduled_days = 1
    /\ before.stability = 580
    /\ Days(HARD) = 1

C30_RepsCountsReviews ==
    committed => row.reps = apiReviews

====
